---- MODULE Spec2Model ----
(***************************************************************************)
(* State-machine model of scrape.py: the configuration lookups of          *)
(* scrape_outages, the concurrent quadtree descent of descend /            *)
(* process_quadkey, and the output step of main.                           *)
(*                                                                         *)
(* Quadkeys and URLs are Python strings; they are modelled as sequences of *)
(* one-character / literal strings so that concatenation, slicing and      *)
(* reversal are computed as the code computes them.  A dict key that is    *)
(* absent is modelled by the empty sequence <<>>.                          *)
(***************************************************************************)
EXTENDS Integers, Sequences, FiniteSets

VARIABLES
    entry,      \* "main": the script run; "descend": descend() called directly
    dataset,    \* "bounded": any dataset within the bounds; "clustered": see Served
    pc,         \* position of the caller (see PcValues)
    raw,        \* the --raw flag of main
    template,   \* cluster_url_template handed to descend
    quadkeys,   \* the list of top-level quadkeys handed to descend
    served,     \* quadkey -> the response the backing dataset gave for it
    br,         \* quadkey -> state of the process_quadkey task for it
    issued,     \* quadkeys for which client.get has been called
    result,     \* the list descend returned (<<>> before it returns)
    run,        \* 1 in the first call of descend, 2 in a repeated call
    previous,   \* the list the first call returned, once descend is called again
    stdout,     \* the documents printed so far
    exitCode    \* -1 while the process runs, then its exit status

vars == <<entry, dataset, pc, raw, template, quadkeys, served, br, issued, result, run,
          previous, stdout, exitCode>>

---------------------------------------------------------------------------
(* Program constants *)

BASE_URL == "https://kubra.io"
MIN_ZOOM == 7
MAX_ZOOM == 14

(* Bound of the model: the total number of outage records the backing      *)
(* dataset serves during one traversal.                                    *)
MaxRecords == 2

(* Bound of the model: the number of fetches of one traversal that end in  *)
(* a fatal failure.                                                        *)
MaxFaults == 1

---------------------------------------------------------------------------
(* Sequence helpers (Python list / str operations) *)

Range(s) == {s[i] : i \in DOMAIN s}

\* s[-n:]
LastN(s, n) == IF Len(s) <= n THEN s ELSE SubSeq(s, Len(s) - n + 1, Len(s))

\* s[::-1]
Reverse(s) == [i \in 1..Len(s) |-> s[Len(s) + 1 - i]]

RECURSIVE Flatten(_)
\* [item for sublist in results for item in sublist]
Flatten(lists) ==
    IF lists = <<>> THEN <<>> ELSE Head(lists) \o Flatten(Tail(lists))

RECURSIVE SumOver(_, _)
SumOver(f, S) ==
    IF S = {} THEN 0
    ELSE LET x == CHOOSE y \in S : TRUE IN f[x] + SumOver(f, S \ {x})

---------------------------------------------------------------------------
(* Quadkeys *)

\* str(i) for i in (0, 1, 2, 3)
Digits == <<"0", "1", "2", "3">>

\* quadkey + str(i); i is the 1-based position in (0, 1, 2, 3)
Child(quadkey, i) == quadkey \o <<Digits[i]>>

Children(quadkey) == [i \in 1..4 |-> Child(quadkey, i)]

\* A tile of the zoom-MIN_ZOOM cover of the service area.
AreaTile == <<"0", "2", "3", "1", "3", "0", "1">>

\* Tiles one level above, and at, the maximum zoom, for direct calls of descend.
DeepTile == AreaTile \o <<"2", "0", "3", "1", "2", "0">>
MaxTile == AreaTile \o <<"2", "0", "3", "1", "2", "1", "3">>
MaxTileB == AreaTile \o <<"2", "0", "3", "1", "2", "1", "0">>

\* Tiles two levels above, and one level below, the maximum zoom: descend
\* takes any list of quadkey strings.
UpperTile == AreaTile \o <<"2", "0", "3", "1", "2">>
OverTile == MaxTile \o <<"2">>

\* The zoom levels at which the backing dataset holds cluster records: the
\* level of the cover, and the levels from two above to one below the
\* maximum zoom.
ClusterZooms == {MIN_ZOOM} \cup ((MAX_ZOOM - 2)..(MAX_ZOOM + 1))

\* What mercantile.tiles(*bbox, zooms=[MIN_ZOOM]) can yield here.
Covers == {<<AreaTile>>}

\* Quadkey lists descend is called with directly.
DirectLists == {<<DeepTile>>, <<MaxTile, MaxTileB>>, <<OverTile>>}

\* Quadkey lists descend is called with against the clustered dataset.
ClusteredLists == {<<UpperTile>>, <<DeepTile>>, <<MaxTile, MaxTileB>>}

\* Tiles the clustered dataset has no file for.
AbsentTiles == {Child(UpperTile, 3), Child(UpperTile, 4)}

---------------------------------------------------------------------------
(* URL templates: str.format with the placeholders {qkh} and {quadkey} *)

RECURSIVE Format(_, _, _)
Format(tpl, qkh, quadkey) ==
    IF tpl = <<>> THEN <<>>
    ELSE (CASE Head(tpl) = "{quadkey}" -> quadkey
            [] Head(tpl) = "{qkh}" -> qkh
            [] OTHER -> <<Head(tpl)>>) \o Format(Tail(tpl), qkh, quadkey)

\* f"{BASE_URL}/{data_path}/public/{layer['id']}/{{quadkey}}.json"
ClusterUrlTemplate(data_path, layer_id) ==
    <<BASE_URL, "/", data_path, "/public/", layer_id, "/", "{quadkey}", ".json">>

\* A deployment template that also uses the reversed-suffix placeholder.
QkhTemplate ==
    <<BASE_URL, "/", "data", "/public/", "cluster-1", "/", "{qkh}", "/", "{quadkey}", ".json">>

\* cluster_url_template.format(qkh=quadkey[-3:][::-1], quadkey=quadkey)
TileUrl(tpl, quadkey) == Format(tpl, Reverse(LastN(quadkey, 3)), quadkey)

---------------------------------------------------------------------------
(* Tile payloads *)

NoField == <<>>

\* geom: a polygon payload ("a", encoded rings) or a point payload ("p").
Polygon == [a |-> <<"ring">>, p |-> NoField]
Point == [a |-> NoField, p |-> <<"pt">>]

\* An outage record: desc.cluster, geom, and possibly a "source" property of
\* its own among its other properties.
Outage(cluster, geom, source) ==
    [desc |-> [cluster |-> cluster], geom |-> geom, source |-> source]

\* The records the backing dataset is built from: a resolved outage, a
\* cluster, and a resolved outage that has a "source" property of its own.
Records ==
    { Outage(FALSE, Point, NoField),
      Outage(TRUE, Point, NoField),
      Outage(FALSE, Polygon, <<"feed">>) }

Payloads(n) == UNION {[1..k -> Records] : k \in 0..n}

\* A decoded or undecodable response body.
Body(json, has_file_data, file_data) ==
    [json |-> json, has_file_data |-> has_file_data, file_data |-> file_data]

\* What one GET can come back with when it does not fail fatally: a 404, or
\* a payload of at most n records.
GoodResponses(n) ==
    {[net |-> "ok", status |-> 404, body |-> Body(FALSE, FALSE, <<>>)]}
    \cup {[net |-> "ok", status |-> 200, body |-> Body(TRUE, TRUE, fd)] : fd \in Payloads(n)}

\* The fatal outcomes: a transport error, another error status, a body that
\* is not JSON, a JSON body without "file_data".
BadResponses ==
    { [net |-> "error", status |-> 0, body |-> Body(FALSE, FALSE, <<>>)],
      [net |-> "ok", status |-> 500, body |-> Body(FALSE, FALSE, <<>>)],
      [net |-> "ok", status |-> 200, body |-> Body(FALSE, FALSE, <<>>)],
      [net |-> "ok", status |-> 200, body |-> Body(TRUE, FALSE, <<>>)] }

\* fetch_json: client.get, raise_for_status, response.json()
fetch_json(resp) ==
    IF resp.net # "ok" THEN [exc |-> "RequestError", status |-> 0, data |-> resp.body]
    ELSE IF resp.status \notin 200..299
        THEN [exc |-> "HTTPStatusError", status |-> resp.status, data |-> resp.body]
    ELSE IF ~resp.body.json
        THEN [exc |-> "JSONDecodeError", status |-> resp.status, data |-> resp.body]
    ELSE [exc |-> "none", status |-> resp.status, data |-> resp.body]

\* {"source": url, **outage}: a key of outage replaces the one written first.
\* origin is bookkeeping: the tile and payload position the record was read at.
Tag(url, outage, quadkey, i) ==
    [source |-> IF outage.source = NoField THEN url ELSE outage.source,
     desc |-> outage.desc,
     geom |-> outage.geom,
     origin |-> <<quadkey, i>>]

\* any(outage["desc"]["cluster"] for outage in data["file_data"])
AnyCluster(file_data) == \E i \in DOMAIN file_data : file_data[i].desc.cluster

\* Variants of the termination test: without the cluster test, and without
\* the depth test.
IsTerminal_DepthOnly(quadkey, file_data) == Len(quadkey) = MAX_ZOOM
IsTerminal_ClusterOnly(quadkey, file_data) == ~AnyCluster(file_data)

\* not any(...) or len(quadkey) == MAX_ZOOM
IsTerminal(quadkey, file_data) ==
    ~AnyCluster(file_data) \/ Len(quadkey) = MAX_ZOOM

\* [{"source": url, **outage} for outage in data["file_data"]]
Contribution(tpl, quadkey, file_data) ==
    [i \in 1..Len(file_data) |-> Tag(TileUrl(tpl, quadkey), file_data[i], quadkey, i)]

---------------------------------------------------------------------------
(* Branches: the process_quadkey tasks *)

Unsettled == {"Pending", "Fetching", "Descending"}
Succeeded == {"NotFoundTerminal", "RecordsTerminal", "Aggregated"}
Settled == Succeeded \cup {"Failed", "Cancelled"}

\* A task: its state and, once it returned, the list it returned.
Branch(st, contrib) == [st |-> st, contrib |-> contrib]

NewBranch == Branch("Pending", <<>>)

\* asyncio.gather(*tasks): one task per quadkey of the list
Spawn(b, keys) ==
    [q \in DOMAIN b \cup Range(keys) |-> IF q \in DOMAIN b THEN b[q] ELSE NewBranch]

\* Variant of process_quadkey that looks below a tile that is not found.
process_quadkey_404Descends(tpl, quadkey, r) ==
    IF r.exc = "HTTPStatusError"
    THEN IF r.status # 404
         THEN Branch("Failed", <<>>)
         ELSE IF Len(quadkey) = MAX_ZOOM THEN Branch("NotFoundTerminal", <<>>)
              ELSE Branch("Descending", <<>>)
    ELSE IF r.exc # "none" \/ ~r.data.has_file_data
    THEN Branch("Failed", <<>>)
    ELSE IF IsTerminal(quadkey, r.data.file_data)
    THEN Branch("RecordsTerminal", Contribution(tpl, quadkey, r.data.file_data))
    ELSE Branch("Descending", <<>>)

\* Variant of process_quadkey whose except clause re-raises every status error.
process_quadkey_Raises404(tpl, quadkey, r) ==
    IF r.exc # "none" \/ ~r.data.has_file_data
    THEN Branch("Failed", <<>>)
    ELSE IF IsTerminal(quadkey, r.data.file_data)
    THEN Branch("RecordsTerminal", Contribution(tpl, quadkey, r.data.file_data))
    ELSE Branch("Descending", <<>>)

\* Variant of process_quadkey whose except clause swallows every status error.
process_quadkey_SwallowsAll(tpl, quadkey, r) ==
    IF r.exc = "HTTPStatusError"
    THEN Branch("NotFoundTerminal", <<>>)
    ELSE IF r.exc # "none" \/ ~r.data.has_file_data
    THEN Branch("Failed", <<>>)
    ELSE IF IsTerminal(quadkey, r.data.file_data)
    THEN Branch("RecordsTerminal", Contribution(tpl, quadkey, r.data.file_data))
    ELSE Branch("Descending", <<>>)

\* The body of process_quadkey once fetch_json ended as r.
process_quadkey(tpl, quadkey, r) ==
    IF r.exc = "HTTPStatusError"
    THEN IF r.status # 404
         THEN Branch("Failed", <<>>)
         ELSE Branch("NotFoundTerminal", <<>>)
    ELSE IF r.exc # "none"
    THEN Branch("Failed", <<>>)
    ELSE IF ~r.data.has_file_data
    THEN Branch("Failed", <<>>)
    ELSE IF IsTerminal(quadkey, r.data.file_data)
    THEN Branch("RecordsTerminal", Contribution(tpl, quadkey, r.data.file_data))
    ELSE Branch("Descending", <<>>)

\* The state of a gather over the tasks of keys: an exception of any task is
\* raised at once; the list of results needs every task.
\* Variant of the gather that never hands the exception of a task on.
GatherRaises_NeverDelivered(keys) == FALSE

GatherRaises(keys) ==
    \E i \in DOMAIN keys : br[keys[i]].st = "Failed"
\* Variant of the gather that returns as soon as one task has returned.
GatherReturns_FirstCompleted(keys) ==
    \E i \in DOMAIN keys : br[keys[i]].st \in Succeeded

\* Variant of the gather that returns although a task raised.
GatherReturns_IgnoresFailures(keys) ==
    \A i \in DOMAIN keys : br[keys[i]].st \in Succeeded \cup {"Failed"}

GatherReturns(keys) == \A i \in DOMAIN keys : br[keys[i]].st \in Succeeded

\* Variant of the flattening that takes the lists of the tasks last to first.
GatherResult_Reversed(keys) ==
    Flatten([i \in DOMAIN keys |-> br[keys[Len(keys) + 1 - i]].contrib])

\* Variant of the flattening that keeps the first task's list only.
GatherResult_FirstOnly(keys) == br[keys[1]].contrib

GatherResult(keys) == Flatten([i \in DOMAIN keys |-> br[keys[i]].contrib])

---------------------------------------------------------------------------
(* The backing dataset *)

\* How a response looks on the wire.
WireKind(resp) ==
    CASE resp.net # "ok" -> "net_error"
      [] resp.status = 404 -> "http_404"
      [] resp.status # 200 -> "http_error"
      [] ~resp.body.json -> "not_json"
      [] ~resp.body.has_file_data -> "no_file_data"
      [] OTHER -> "ok"

FatalKinds == {"no_file_data", "http_error", "net_error", "not_json"}

\* The records served so far.
Used == SumOver([q \in DOMAIN served |-> Len(served[q].body.file_data)], DOMAIN served)

\* The fetches that failed fatally so far.
Faults == Cardinality({q \in DOMAIN served : WireKind(served[q]) \in FatalKinds})

\* The answer of the clustered dataset, in which the payload of every tile
\* that has a file holds a cluster record, whatever its zoom.
ClusteredResponse(q) ==
    IF q \in AbsentTiles
    THEN [net |-> "ok", status |-> 404, body |-> Body(FALSE, FALSE, <<>>)]
    ELSE [net |-> "ok", status |-> 200,
          body |-> Body(TRUE, TRUE, <<Outage(TRUE, Point, NoField)>>)]

\* What the backing dataset answers to the GET for quadkey q: what it answered
\* before, the dataset being unchanged, and else any response within the
\* bounds of the model.
Served(q) ==
    IF q \in DOMAIN served THEN {served[q]}
    ELSE IF dataset = "clustered" THEN {ClusteredResponse(q)}
    ELSE {resp \in GoodResponses(MaxRecords - Used) :
            Len(q) \in ClusterZooms \/ ~AnyCluster(resp.body.file_data)}
         \cup (IF Faults < MaxFaults THEN BadResponses ELSE {})

Record(b, q, resp) == [t \in DOMAIN b \cup {q} |-> IF t = q THEN resp ELSE b[t]]

---------------------------------------------------------------------------
(* Feature encoding *)

\* polyline.decode of the encoded strings of the payloads: (lat, lon) pairs
Decode(s) ==
    IF s = "ring" THEN << <<30, -97>>, <<31, -97>>, <<31, -98>>, <<30, -97>> >>
    ELSE << <<30, -98>> >>

\* to_geojson, one record
Feature(outage) ==
    [type |-> "Feature",
     properties |-> [source |-> outage.source, desc |-> outage.desc,
                     origin |-> outage.origin],
     geometry |->
        IF outage.geom.a # NoField
        THEN [type |-> "Polygon",
              coordinates |-> [k \in 1..Len(outage.geom.a) |->
                                 [j \in 1..Len(Decode(outage.geom.a[k])) |->
                                    Reverse(Decode(outage.geom.a[k])[j])]]]
        ELSE [type |-> "Point",
              coordinates |-> <<Reverse(Decode(outage.geom.p[1])[1])>>]]

to_geojson(outages) ==
    [type |-> "FeatureCollection",
     features |-> [i \in 1..Len(outages) |-> Feature(outages[i])]]

---------------------------------------------------------------------------
(* Initial states *)

PcValues == {"get_state", "get_cluster_url_template", "get_service_area_quadkeys",
             "descend", "output", "raised", "returned", "exit"}

InitMain ==
    /\ entry = "main"
    /\ dataset = "bounded"
    /\ pc = "get_state"
    /\ raw \in BOOLEAN
    /\ template = <<>>
    /\ quadkeys = <<>>
    /\ br = <<>>

InitDirect ==
    /\ entry = "descend"
    /\ pc = "descend"
    /\ raw = TRUE
    /\ template = QkhTemplate
    /\ \/ dataset = "bounded" /\ quadkeys \in DirectLists
       \/ dataset = "clustered" /\ quadkeys \in ClusteredLists
    /\ br = Spawn(<<>>, quadkeys)

Init ==
    /\ InitMain \/ InitDirect
    /\ served = <<>>
    /\ issued = {}
    /\ result = <<>>
    /\ run = 1
    /\ previous = <<>>
    /\ stdout = <<>>
    /\ exitCode = -1

---------------------------------------------------------------------------
(* scrape_outages: the configuration lookups *)

\* How a lookup can end: the document is there, the request fails, or the
\* document lacks a field the code reads (KeyError, StopIteration).
ConfigOutcomes == {"ok", "request_failed", "missing_field"}

descentVars == <<served, br, issued, result, run, previous>>

\* An exception leaves main and asyncio.run: nothing is printed, status 1.
Abort ==
    /\ pc' = "exit"
    /\ exitCode' = 1
    /\ UNCHANGED <<entry, dataset, raw, template, quadkeys, descentVars, stdout>>

\* state = await get_state(client, instance_id, view_id)
GetState ==
    /\ pc = "get_state"
    /\ \E o \in {"ok", "request_failed"} :
        IF o = "ok"
        THEN /\ pc' = "get_cluster_url_template"
             /\ UNCHANGED <<entry, dataset, raw, template, quadkeys, descentVars, stdout, exitCode>>
        ELSE Abort

\* Variant of the template lookup whose failure is swallowed: the run goes
\* on without a template.
GetClusterUrlTemplate_SwallowsFailure ==
    /\ pc = "get_cluster_url_template"
    /\ \E o \in ConfigOutcomes :
        /\ pc' = "get_service_area_quadkeys"
        /\ template' = IF o = "ok" THEN ClusterUrlTemplate("data", "cluster-1") ELSE template
        /\ UNCHANGED <<entry, dataset, raw, quadkeys, descentVars, stdout, exitCode>>

\* cluster_url_template = await get_cluster_url_template(client, state, ...)
GetClusterUrlTemplate ==
    /\ pc = "get_cluster_url_template"
    /\ \E o \in ConfigOutcomes :
        IF o = "ok"
        THEN /\ pc' = "get_service_area_quadkeys"
             /\ template' = ClusterUrlTemplate("data", "cluster-1")
             /\ UNCHANGED <<entry, dataset, raw, quadkeys, descentVars, stdout, exitCode>>
        ELSE Abort

\* quadkeys = await get_service_area_quadkeys(client, state); on success
\* scrape_outages calls descend at once, which creates the top-level tasks
\* and awaits their gather.
GetServiceAreaQuadkeys ==
    /\ pc = "get_service_area_quadkeys"
    /\ \E o \in ConfigOutcomes :
        IF o = "ok"
        THEN \E cover \in Covers :
             /\ pc' = "descend"
             /\ quadkeys' = cover
             /\ br' = Spawn(br, cover)
             /\ UNCHANGED <<entry, dataset, raw, template, served, issued, result, run, previous,
                            stdout, exitCode>>
        ELSE Abort

---------------------------------------------------------------------------
(* descend: the tasks *)

callerVars == <<entry, dataset, raw, template, quadkeys, run, previous, stdout, exitCode>>

\* Tasks run while descend awaits its gather, and after it raised until the
\* event loop cancels them.
Running == pc \in {"descend", "raised"}

\* Variant in which a gate lets one fetch be in flight at a time: the next
\* task of the list calls client.get only when no other fetch is pending.
StartTasks_OneAtATime(keys) ==
    /\ Running
    /\ keys # <<>>
    /\ Range(keys) \subseteq DOMAIN br
    /\ \A q \in DOMAIN br : br[q].st # "Fetching"
    /\ \E i \in DOMAIN keys :
        /\ br[keys[i]].st = "Pending"
        /\ \A j \in 1..(i - 1) : br[keys[j]].st # "Pending"
        /\ br' = [br EXCEPT ![keys[i]].st = "Fetching"]
        /\ issued' = issued \cup {keys[i]}
    /\ UNCHANGED <<pc, served, result, callerVars>>

\* The tasks of one gather were scheduled together and take their first
\* step in one pass of the event loop, in list order: each calls client.get.
StartTasks(keys) ==
    /\ Running
    /\ keys # <<>>
    /\ Range(keys) \subseteq DOMAIN br
    /\ \A i \in DOMAIN keys : br[keys[i]].st = "Pending"
    /\ br' = [q \in DOMAIN br |->
                IF q \in Range(keys) THEN [br[q] EXCEPT !.st = "Fetching"] ELSE br[q]]
    /\ issued' = issued \cup Range(keys)
    /\ UNCHANGED <<pc, served, result, callerVars>>

\* The fetch of a task returns and the task runs to its return, its raise or
\* its gather over the four children.
Respond(q) ==
    /\ Running
    /\ br[q].st = "Fetching"
    /\ \E resp \in Served(q) :
        LET b == process_quadkey(template, q, fetch_json(resp)) IN
        /\ served' = Record(served, q, resp)
        /\ br' = IF b.st = "Descending"
                 THEN Spawn([br EXCEPT ![q] = b], Children(q))
                 ELSE [br EXCEPT ![q] = b]
    /\ UNCHANGED <<pc, issued, result, callerVars>>

\* The gather of a subdividing task completes.
Join(q) ==
    /\ Running
    /\ br[q].st = "Descending"
    /\ \/ /\ GatherRaises(Children(q))
          /\ br' = [br EXCEPT ![q].st = "Failed"]
       \/ /\ GatherReturns(Children(q))
          /\ br' = [br EXCEPT ![q].st = "Aggregated",
                              ![q].contrib = GatherResult(Children(q))]
    /\ UNCHANGED <<pc, served, issued, result, callerVars>>

\* The top-level gather of descend returns the flattened results.
DescendReturn ==
    /\ pc = "descend"
    /\ GatherReturns(quadkeys)
    /\ result' = GatherResult(quadkeys)
    /\ pc' = IF entry = "main" THEN "output" ELSE "returned"
    /\ UNCHANGED <<served, br, issued, callerVars>>

\* The top-level gather of descend raises the exception of a task.
DescendRaise ==
    /\ pc = "descend"
    /\ GatherRaises(quadkeys)
    /\ pc' = "raised"
    /\ UNCHANGED <<served, br, issued, result, callerVars>>

\* Variant of the teardown that also discards the tasks that have returned.
Cancel_AlsoReturned(q) ==
    /\ pc = "raised"
    /\ br[q].st \in Unsettled \cup Succeeded
    /\ br' = [br EXCEPT ![q] = Branch("Cancelled", <<>>)]
    /\ UNCHANGED <<pc, served, issued, result, callerVars>>

\* After descend raised, whatever tasks are left are cancelled.
Cancel(q) ==
    /\ pc = "raised"
    /\ br[q].st \in Unsettled
    /\ br' = [br EXCEPT ![q].st = "Cancelled"]
    /\ UNCHANGED <<pc, served, issued, result, callerVars>>

\* descend is called once more with the same quadkeys and template, against
\* the unchanged backing dataset.
DescendAgain ==
    /\ entry = "descend"
    /\ pc = "returned"
    /\ run = 1
    /\ run' = 2
    /\ previous' = result
    /\ result' = <<>>
    /\ issued' = {}
    /\ br' = Spawn(<<>>, quadkeys)
    /\ pc' = "descend"
    /\ UNCHANGED <<entry, dataset, raw, template, quadkeys, served, stdout, exitCode>>

---------------------------------------------------------------------------
(* main *)

\* print(json.dumps(outages)) or print(json.dumps(to_geojson(outages), ...))
Output ==
    /\ pc = "output"
    /\ stdout' = Append(stdout, IF raw THEN [format |-> "raw", records |-> result]
                                ELSE [format |-> "geojson", doc |-> to_geojson(result)])
    /\ pc' = "exit"
    /\ exitCode' = 0
    /\ UNCHANGED <<entry, dataset, raw, template, quadkeys, descentVars>>

\* Variant of the failing exit that prints what the tasks had gathered.
ExitFailed_PrintsPartial ==
    /\ entry = "main"
    /\ pc = "raised"
    /\ \A q \in DOMAIN br : br[q].st \in Settled
    /\ pc' = "exit"
    /\ exitCode' = 1
    /\ stdout' = Append(stdout, [format |-> "raw",
                                 records |-> Flatten([i \in DOMAIN quadkeys |->
                                                        br[quadkeys[i]].contrib])])
    /\ UNCHANGED <<entry, dataset, raw, template, quadkeys, descentVars>>

\* asyncio.run has cancelled every task left; the exception ends the process.
ExitFailed ==
    /\ entry = "main"
    /\ pc = "raised"
    /\ \A q \in DOMAIN br : br[q].st \in Settled
    /\ pc' = "exit"
    /\ exitCode' = 1
    /\ UNCHANGED <<entry, dataset, raw, template, quadkeys, descentVars, stdout>>

---------------------------------------------------------------------------
(* Specifications *)

Tasks ==
    \/ StartTasks(quadkeys)
    \/ \E q \in DOMAIN br : StartTasks(Children(q))
    \/ \E q \in DOMAIN br : Respond(q)
    \/ \E q \in DOMAIN br : Join(q)
    \/ DescendReturn
    \/ DescendRaise
    \/ \E q \in DOMAIN br : Cancel(q)

Next ==
    \/ GetState
    \/ GetClusterUrlTemplate
    \/ GetServiceAreaQuadkeys
    \/ Tasks
    \/ Output
    \/ ExitFailed

\* One run of the script, or one direct call of descend.
Spec == Init /\ [][Next]_vars

\* The steps the event loop takes whenever they are ready, every issued
\* fetch coming back with an outcome.
Scheduled ==
    \/ StartTasks(quadkeys)
    \/ \E q \in DOMAIN br : StartTasks(Children(q))
    \/ \E q \in DOMAIN br : Respond(q)
    \/ \E q \in DOMAIN br : Join(q)
    \/ DescendReturn
    \/ DescendRaise

\* descend called directly with quadkeys of at most MAX_ZOOM characters.
InitFair ==
    /\ Init
    /\ entry = "descend"
    /\ \A i \in DOMAIN quadkeys : Len(quadkeys[i]) <= MAX_ZOOM

\* One direct call of descend in which no ready step is postponed forever.
SpecFair == InitFair /\ [][Tasks]_vars /\ WF_vars(Scheduled)

InitTwice == Init /\ entry = "descend"

NextTwice == Tasks \/ DescendAgain

\* descend called twice in a row against the same backing dataset.
SpecTwice == InitTwice /\ [][NextTwice]_vars

TypeOK ==
    /\ entry \in {"main", "descend"}
    /\ dataset \in {"bounded", "clustered"}
    /\ pc \in PcValues
    /\ raw \in BOOLEAN
    /\ \A q \in DOMAIN br : br[q].st \in Unsettled \cup Settled
    /\ issued \subseteq DOMAIN br
    /\ run = 1 => DOMAIN served \subseteq issued
    /\ exitCode \in {-1, 0, 1}
---------------------------------------------------------------------------
(* Vocabulary of the properties *)

\* The payload and the wire-level outcome the dataset gave for tile q.
Content(q) == served[q].body.file_data
Kind(q) == WireKind(served[q])

ProperPrefix(p, t) == Len(p) < Len(t) /\ SubSeq(t, 1, Len(p)) = p

\* No task exists and no fetch was issued for a child of q.
NoChildFetched(q) ==
    \A i \in 1..4 : Child(q, i) \notin DOMAIN br /\ Child(q, i) \notin issued

\* A contributed item carries every field of the payload record it was built from.
SameRecord(item, outage) ==
    /\ item.desc = outage.desc
    /\ item.geom = outage.geom
    /\ outage.source # NoField => item.source = outage.source

\* The list the task of q returned is the payload of q, record for record.
ContributesExactly(q) ==
    /\ Len(br[q].contrib) = Len(Content(q))
    /\ \A i \in 1..Len(Content(q)) :
        /\ br[q].contrib[i].origin = <<q, i>>
        /\ SameRecord(br[q].contrib[i], Content(q)[i])

AnyFatal == \E q \in DOMAIN served : Kind(q) \in FatalKinds

\* No task can take a step.
Quiescent ==
    \A q \in DOMAIN br :
        /\ br[q].st \notin {"Pending", "Fetching"}
        /\ br[q].st = "Descending" =>
            ~GatherRaises(Children(q)) /\ ~GatherReturns(Children(q))

\* descend has returned its list.
Returned == pc \in {"output", "returned"} \/ (pc = "exit" /\ exitCode = 0)

\* The payload positions of the tiles whose task ended terminal with records.
TerminalOrigins ==
    UNION { {<<q, i>> : i \in 1..Len(Content(q))} :
            q \in {t \in DOMAIN br : br[t].st = "RecordsTerminal"} }

---------------------------------------------------------------------------
(* C1: a tile whose payload holds no cluster-marked record (an empty       *)
(* payload included) ends terminal at any depth: no task and no fetch for  *)
(* any of its four children, and its contribution is its payload, each     *)
(* record once, in place.                                                  *)
C1_NoClusterIsTerminal ==
    \A q \in DOMAIN served :
        (Kind(q) = "ok" /\ ~AnyCluster(Content(q))) =>
            /\ br[q].st = "RecordsTerminal"
            /\ NoChildFetched(q)
            /\ ContributesExactly(q)

\* A tile below the maximum zoom with two resolved records ended terminal.
C1_Witness ==
    \E q \in DOMAIN served :
        /\ Len(q) < MAX_ZOOM
        /\ Kind(q) = "ok" /\ ~AnyCluster(Content(q))
        /\ Len(Content(q)) >= 2
        /\ br[q].st = "RecordsTerminal"

(* C2: a tile at the maximum zoom whose fetch succeeds ends terminal       *)
(* whatever its cluster markings: no child is fetched and every record of  *)
(* its payload, cluster-marked ones included, is contributed.              *)
C2_MaxDepthIsTerminal ==
    \A q \in DOMAIN served :
        (Len(q) = MAX_ZOOM /\ Kind(q) = "ok") =>
            /\ br[q].st = "RecordsTerminal"
            /\ NoChildFetched(q)
            /\ ContributesExactly(q)

\* A tile reached by subdivision, at the maximum zoom, all of whose records
\* are clusters, contributed them.
C2_Witness ==
    \E q \in DOMAIN served :
        /\ Len(q) = MAX_ZOOM /\ q \notin Range(quadkeys)
        /\ Kind(q) = "ok" /\ Content(q) # <<>>
        /\ \A i \in DOMAIN Content(q) : Content(q)[i].desc.cluster
        /\ br[q].st = "RecordsTerminal"
        /\ Len(br[q].contrib) = Len(Content(q))

(* C3: a tile answered with HTTP 404 contributes no record, and no task or *)
(* fetch ever exists for a child or deeper descendant of it.               *)
C3_NotFoundShortCircuit ==
    \A q \in DOMAIN served :
        Kind(q) = "http_404" =>
            /\ br[q].st = "NotFoundTerminal"
            /\ br[q].contrib = <<>>
            /\ \A t \in DOMAIN br \cup issued : ~ProperPrefix(q, t)
            /\ \A i \in DOMAIN result : result[i].origin[1] # q

\* A top-level tile below the maximum zoom was not found and descend returned.
C3_Witness ==
    \E q \in DOMAIN served :
        /\ q \in Range(quadkeys) /\ Len(q) < MAX_ZOOM
        /\ Kind(q) = "http_404"
        /\ pc \in {"output", "returned"}

(* C4: once any fetch of the traversal has failed fatally, descend never   *)
(* returns a list: nothing is returned or printed, and when no task can    *)
(* step any more the top-level gather raises.                              *)
C4_FatalFailsDescend ==
    AnyFatal =>
        /\ ~Returned
        /\ result = <<>>
        /\ stdout = <<>>
        /\ (pc = "descend" /\ Quiescent) => GatherRaises(quadkeys)

\* descend raised for the fatal fetch of one child while each of its three
\* siblings had returned, one of them with records.
C4_Witness ==
    /\ pc = "raised"
    /\ \E q \in Range(quadkeys) : \E i \in 1..4 :
        /\ Children(q)[i] \in DOMAIN served
        /\ Kind(Children(q)[i]) \in FatalKinds
        /\ \A j \in (1..4) \ {i} : br[Children(q)[j]].st \in Succeeded
        /\ \E j \in (1..4) \ {i} : br[Children(q)[j]].contrib # <<>>

(* C5: the list descend returns holds exactly the records of the tiles     *)
(* whose task ended terminal with records, each once, and nothing of a     *)
(* not-found or subdivided tile.                                           *)
C5_ResultIsTerminalRecords ==
    Returned =>
        /\ {result[i].origin : i \in DOMAIN result} = TerminalOrigins
        /\ Len(result) = Cardinality(TerminalOrigins)
        /\ \A i \in DOMAIN result :
            SameRecord(result[i], Content(result[i].origin[1])[result[i].origin[2]])

\* A cluster root with one terminal child holding records and three
\* not-found children: the result is that child's records.
C5_Witness ==
    /\ pc = "returned"
    /\ \E q \in Range(quadkeys) : \E i \in 1..4 :
        /\ br[q].st = "Aggregated"
        /\ br[Children(q)[i]].st = "RecordsTerminal"
        /\ Content(Children(q)[i]) # <<>>
        /\ \A j \in (1..4) \ {i} : br[Children(q)[j]].st = "NotFoundTerminal"
        /\ Len(result) = Len(Content(Children(q)[i]))
        /\ \A k \in DOMAIN result : result[k].origin[1] = Children(q)[i]

(* C6: every record of the list descend returns carries, as its source     *)
(* tag, the URL of the tile it was read from, whatever properties the      *)
(* record has itself.  (Refuted: a "source" property of the record         *)
(* replaces the tag.)                                                      *)
C6_SourceIsTileUrl ==
    Returned =>
        \A i \in DOMAIN result :
            result[i].source = TileUrl(template, result[i].origin[1])

(* C7: tiles that are not found fail nothing: while no fetch failed        *)
(* fatally, no task fails or is cancelled, descend does not raise, it      *)
(* returns once no task can step, and the list of every terminal sibling   *)
(* or other top-level tile is in the result unchanged.                     *)
C7_NotFoundIsHarmless ==
    ((\E q \in DOMAIN served : Kind(q) = "http_404") /\ ~AnyFatal) =>
        /\ \A q \in DOMAIN br : br[q].st \notin {"Failed", "Cancelled"}
        /\ pc # "raised" /\ exitCode # 1
        /\ (pc = "descend" /\ Quiescent) => GatherReturns(quadkeys)
        /\ Returned =>
            \A q \in DOMAIN br :
                br[q].st = "RecordsTerminal" =>
                    \E k \in 0..Len(result) :
                        SubSeq(result, k + 1, k + Len(br[q].contrib)) = br[q].contrib

\* Of two top-level tiles the first was not found; descend returned the
\* records of the second.
C7_Witness ==
    /\ pc = "returned"
    /\ Len(quadkeys) = 2
    /\ Kind(quadkeys[1]) = "http_404"
    /\ br[quadkeys[2]].contrib # <<>>
    /\ result = br[quadkeys[2]].contrib

(* C8: HTTP 404 is the only failure of a fetch that is not fatal: a task   *)
(* whose fetch ended in a transport error, another error status, an        *)
(* undecodable body or a body without file_data is failed and contributes  *)
(* nothing, and only a 404 ends a task as not found.                       *)
C8_OnlyNotFoundIsSwallowed ==
    \A q \in DOMAIN served :
        /\ Kind(q) \in FatalKinds => (br[q].st = "Failed" /\ br[q].contrib = <<>>)
        /\ br[q].st = "NotFoundTerminal" => Kind(q) = "http_404"

\* A fetch answered with an error status other than 404 failed its task.
C8_Witness ==
    \E q \in DOMAIN served : Kind(q) = "http_error" /\ br[q].st = "Failed"

(* C9: a second call of descend with the same quadkeys against the same    *)
(* dataset returns the same set of records as the first, whatever the      *)
(* order in which the fetches of either call complete.                     *)
C9_SameRecordsTwice ==
    (run = 2 /\ pc = "returned") => Range(result) = Range(previous)

\* The second call returned records gathered below a subdivided tile.
C9_Witness ==
    /\ run = 2 /\ pc = "returned"
    /\ result # <<>>
    /\ \E q \in Range(quadkeys) : br[q].st = "Aggregated"

\* A lookup of scrape_outages failed before any task existed.
ConfigFailed == entry = "main" /\ pc = "exit" /\ quadkeys = <<>>

\* What was printed is the list descend returned.
PrintedIs(doc, list) ==
    IF doc.format = "raw" THEN doc.records = list
    ELSE /\ Len(doc.doc.features) = Len(list)
         /\ \A i \in DOMAIN list :
              doc.doc.features[i].properties.origin = list[i].origin

(* C10: the script prints and exits 0 only after a run in which every      *)
(* lookup and every task succeeded, and then prints the complete result;   *)
(* after any fatal error nothing is printed and the exit status is not 0.  *)
C10_OutputOnlyOnSuccess ==
    /\ (stdout # <<>> \/ exitCode = 0) =>
        /\ pc = "exit" /\ exitCode = 0
        /\ ~AnyFatal
        /\ DOMAIN br # {} /\ \A q \in DOMAIN br : br[q].st \in Succeeded
        /\ Len(stdout) = 1 /\ PrintedIs(stdout[1], result)
        /\ {result[i].origin : i \in DOMAIN result} = TerminalOrigins
    /\ (ConfigFailed \/ AnyFatal) =>
        /\ stdout = <<>>
        /\ exitCode # 0
        /\ pc = "exit" => exitCode = 1

\* The script exited with status 1 and printed nothing although a task had
\* returned records.
C10_Witness ==
    /\ entry = "main" /\ pc = "exit" /\ exitCode = 1
    /\ stdout = <<>>
    /\ \E q \in DOMAIN br : br[q].st = "RecordsTerminal" /\ br[q].contrib # <<>>

\* The lookups of scrape_outages that precede the descent.
ConfigPcs == {"get_state", "get_cluster_url_template", "get_service_area_quadkeys"}

(* C11: in a run of the script no tile fetch is issued, and no task        *)
(* exists, before the state document, the cluster URL template and the     *)
(* tile cover have been obtained, in that order; a failed lookup ends the  *)
(* run with status 1 and without any tile fetch.                           *)
C11_ConfigBeforeFetches ==
    entry = "main" =>
        /\ pc \in ConfigPcs => issued = {} /\ served = <<>> /\ DOMAIN br = {}
        /\ pc \in {"get_state", "get_cluster_url_template"} => template = <<>>
        /\ pc = "get_service_area_quadkeys" => template # <<>>
        /\ pc \in ConfigPcs => quadkeys = <<>>
        /\ quadkeys # <<>> => template # <<>>
        /\ (issued # {} \/ DOMAIN br # {}) =>
            template # <<>> /\ quadkeys # <<>> /\ pc \notin ConfigPcs
        /\ ConfigFailed =>
            issued = {} /\ served = <<>> /\ DOMAIN br = {} /\ exitCode = 1

\* A run of the script has issued the fetch of its cover tile.
C11_Witness ==
    /\ entry = "main" /\ pc = "descend"
    /\ issued = Range(quadkeys) /\ issued # {}
    /\ template = ClusterUrlTemplate("data", "cluster-1")

(* C12: descend raises only after every branch has settled: in the step in *)
(* which the failure reaches the caller of descend, no task is still       *)
(* waiting to fetch, fetching, or waiting on its children.                 *)
C12_RaisesAfterAllSettled ==
    [][(pc = "descend" /\ pc' = "raised") =>
        \A q \in DOMAIN br' : br'[q].st \in Settled]_vars

(* C13: whatever the length of the quadkeys descend is called with, a tile *)
(* whose quadkey has MAX_ZOOM or more characters is never subdivided: no   *)
(* task exists and no fetch is issued for any of its children.             *)
C13_NoFetchBelowMaxDepth ==
    \A q \in DOMAIN br : Len(q) >= MAX_ZOOM => NoChildFetched(q)

\* descend was called with quadkeys no longer than MAX_ZOOM.
WithinMaxZoom == \A i \in DOMAIN quadkeys : Len(quadkeys[i]) <= MAX_ZOOM

\* descend is over, with a list or an exception, and no task is left
\* waiting to fetch, fetching or waiting on its children.
Completed ==
    /\ pc \notin ConfigPcs \cup {"descend"}
    /\ \A q \in DOMAIN br : br[q].st \in Settled

(* C14: when descend is called with quadkeys of at most MAX_ZOOM           *)
(* characters, then whatever the dataset holds, also with a cluster record *)
(* in every tile, no tile longer than MAX_ZOOM is ever fetched, and if     *)
(* every fetch comes back descend ends, returning or raising, with no task *)
(* left fetching or waiting on its children.                               *)
C14_DescendCompletes ==
    /\ [](WithinMaxZoom => \A q \in DOMAIN br : Len(q) <= MAX_ZOOM)
    /\ (pc = "descend" /\ WithinMaxZoom) => <>Completed

\* Against the clustered dataset descend returned the records of the
\* zoom-MAX_ZOOM tiles two levels below its quadkey.
C14_Witness ==
    /\ dataset = "clustered" /\ pc = "returned"
    /\ quadkeys = <<UpperTile>> /\ br[UpperTile].st = "Aggregated"
    /\ \A i \in DOMAIN result : Len(result[i].origin[1]) = MAX_ZOOM
    /\ Len(result) = 8

(* C15: a task that subdivided its tile has returned its list only when    *)
(* the tasks of all four children have returned theirs, and descend has    *)
(* returned only when every top-level task, and so every task, has         *)
(* returned: no list is produced while a task is still in flight.          *)
C15_JoinBeforeResult ==
    /\ \A q \in DOMAIN br :
        /\ br[q].st = "Aggregated" =>
            \A i \in 1..4 :
                /\ Child(q, i) \in DOMAIN br
                /\ br[Child(q, i)].st \in Succeeded
        /\ br[q].st \in Unsettled => br[q].contrib = <<>>
    /\ Returned =>
        /\ \A i \in DOMAIN quadkeys : br[quadkeys[i]].st \in Succeeded
        /\ \A q \in DOMAIN br : br[q].st \in Succeeded

\* descend returned the list of a tile whose children had subdivided too.
C15_Witness ==
    /\ Returned
    /\ \E q \in Range(quadkeys) :
        /\ br[q].st = "Aggregated"
        /\ \E i \in 1..4 : br[Child(q, i)].st = "Aggregated"

\* A task ended by an exception: one raised in it, or the CancelledError
\* thrown into it when the tasks left are cancelled.
Raised == {"Failed", "Cancelled"}

(* C16: each task follows one state machine: its fetch ends in exactly one *)
(* of not-found, records returned, subdividing, or failure; only a         *)
(* subdividing task comes to return an aggregated list; and a task that    *)
(* has returned (not found, records, aggregated) keeps its state and its   *)
(* list for good, also when another task fails afterwards.                 *)
C16_BranchStateMachine ==
    [][\A q \in DOMAIN br :
        /\ q \in DOMAIN br'
        /\ (br[q].st = "Pending" /\ br'[q].st # "Pending") =>
            br'[q].st \in {"Fetching", "Cancelled"}
        /\ (br[q].st = "Fetching" /\ br'[q].st # "Fetching") =>
            br'[q].st \in {"NotFoundTerminal", "RecordsTerminal", "Descending"} \cup Raised
        /\ (br[q].st = "Descending" /\ br'[q].st # "Descending") =>
            br'[q].st \in {"Aggregated"} \cup Raised
        /\ (br'[q].st = "Aggregated" /\ br[q].st # "Aggregated") =>
            br[q].st = "Descending"
        /\ br[q].st \in Succeeded => br'[q] = br[q]]_vars

\* Under a subdivided tile one child has returned records and another has
\* failed, after descend raised.
C16_Witness ==
    /\ pc = "raised"
    /\ \E q \in DOMAIN br : \E i, j \in 1..4 :
        /\ br[q].st = "Failed"
        /\ Child(q, i) \in DOMAIN br /\ Child(q, j) \in DOMAIN br
        /\ br[Child(q, i)].st = "RecordsTerminal" /\ br[Child(q, i)].contrib # <<>>
        /\ br[Child(q, j)].st = "Failed"

\* The lists of quadkeys whose tasks were created for one gather.
Groups ==
    {quadkeys} \cup {Children(q) : q \in {t \in DOMAIN br : Child(t, 1) \in DOMAIN br}}

\* The task has gone past its fetch.
Answered(q) == br[q].st \in Succeeded \cup {"Descending", "Failed"}

(* C17: the fetches of the tasks of one gather, the top-level tiles or the *)
(* four children of a subdivided tile, are all issued before any of them   *)
(* has to complete: none is issued without the others, and none has been   *)
(* answered while another is not yet issued.  (That nothing caps the       *)
(* number of fetches in flight shows in the reachable state C17_Witness.)  *)
C17_FanOutTogether ==
    \A keys \in Groups :
        /\ Range(keys) \subseteq DOMAIN br
        /\ (\E i \in DOMAIN keys : keys[i] \in issued \/ Answered(keys[i])) =>
            \A i \in DOMAIN keys : keys[i] \in issued

\* Every tile of the deepest level of the clustered tree below UpperTile is
\* being fetched at the same time, under two different parents.
C17_Witness ==
    /\ dataset = "clustered" /\ quadkeys = <<UpperTile>>
    /\ LET level == {q \in DOMAIN br : Len(q) = MAX_ZOOM}
       IN /\ Cardinality(level) = 8
          /\ \A q \in level : br[q].st = "Fetching" /\ q \in issued /\ q \notin DOMAIN served

\* quadkey[:-1], the tile a child quadkey was built from
Parent(t) == SubSeq(t, 1, Len(t) - 1)

\* The step calls client.get for tile t.
Fetches(t) ==
    /\ t \in DOMAIN br' /\ br'[t].st = "Fetching"
    /\ t \in DOMAIN br => br[t].st # "Fetching"

(* C18: a fetch is issued for a tile that is not among the quadkeys        *)
(* descend was called with only after the fetch of its parent returned a   *)
(* payload with at least one cluster record, the parent's quadkey not      *)
(* having MAX_ZOOM characters; and, the quadkeys of the call being         *)
(* distinct and none a prefix of another, no tile is fetched twice in one  *)
(* traversal.                                                              *)
C18_FetchOnlyBelowOpenedParent ==
    /\ [](\A t \in issued \ Range(quadkeys) :
            /\ Len(t) > 1
            /\ Parent(t) \in issued
            /\ Parent(t) \in DOMAIN served
            /\ Kind(Parent(t)) = "ok"
            /\ AnyCluster(Content(Parent(t)))
            /\ Len(Parent(t)) # MAX_ZOOM)
    /\ [][\A t \in DOMAIN br' :
            Fetches(t) => t \notin issued /\ t \in DOMAIN br /\ br[t].st = "Pending"]_vars

\* A tile two levels below the quadkey descend was called with was fetched
\* and answered.
C18_Witness ==
    \E t \in issued :
        /\ t \in DOMAIN served
        /\ t \notin Range(quadkeys)
        /\ Parent(t) \notin Range(quadkeys)
        /\ Parent(Parent(t)) \in Range(quadkeys)

\* The position of the top-level quadkey above (or equal to) tile t.
TopIndex(t) ==
    CHOOSE i \in DOMAIN quadkeys : quadkeys[i] = t \/ ProperPrefix(quadkeys[i], t)

\* The position of a digit in (0, 1, 2, 3).
DigitPos(d) == CHOOSE k \in DOMAIN Digits : Digits[k] = d

\* Record a comes before record b: by position of the top-level quadkey in
\* the list, then by the child digits below it, then by place in the payload.
Before(a, b) ==
    LET p == a[1]
        q == b[1]
    IN IF p = q THEN a[2] < b[2]
       ELSE IF TopIndex(p) # TopIndex(q) THEN TopIndex(p) < TopIndex(q)
       ELSE \E k \in 1..Len(p) :
               /\ k <= Len(q)
               /\ SubSeq(p, 1, k - 1) = SubSeq(q, 1, k - 1)
               /\ p[k] # q[k]
               /\ DigitPos(p[k]) < DigitPos(q[k])

(* C19: the list a successful descend returns does not depend on the order *)
(* in which fetches complete: it holds the records of the terminal tiles,  *)
(* each once and as its tile served it, in the order of the quadkey list,  *)
(* then of the child digits 0, 1, 2, 3, then of the payload.               *)
C19_ResultOrderIsFixed ==
    Returned =>
        /\ {result[i].origin : i \in DOMAIN result} = TerminalOrigins
        /\ \A i, j \in DOMAIN result : i < j => Before(result[i].origin, result[j].origin)
        /\ \A i \in DOMAIN result :
            LET q == result[i].origin[1]
                k == result[i].origin[2]
            IN /\ SameRecord(result[i], Content(q)[k])
               /\ result[i] = br[q].contrib[k]

\* descend returned the records of the four children of its quadkey, one
\* record each.
C19_Witness ==
    /\ Returned /\ dataset = "clustered" /\ quadkeys = <<DeepTile>>
    /\ Len(result) = 4
    /\ \A i \in 1..4 : result[i].origin = <<Child(DeepTile, i), 1>>
====
